---------------------------- MODULE Spec2Model ----------------------------
(***************************************************************************)
(* A model of scraper.py: the crawl of the category listings, the          *)
(* extraction of one record per article, the aggregation (deduplicate,     *)
(* sort, cap) and the feed serialisation, together with the pure helpers   *)
(* is_article_href, parse_pl_date, first_sentence and the guid expression. *)
(*                                                                         *)
(* Texts are TLA+ strings, read character by character with SubSeq.       *)
(* String literals are ASCII only, so two characters stand for the two     *)
(* non-ASCII code points the program's inputs need:                        *)
(*     "^"  stands for a Polish diacritic letter of the class              *)
(*          [ąćęłńóśźż] (one code point, a letter, its own lower case);    *)
(*     "~"  stands for the ellipsis U+2026 (one code point).               *)
(***************************************************************************)
EXTENDS Integers, Sequences, FiniteSets, TLC

VARIABLES
    pc,          \* position of the run in main / collect_all_articles
    cat,         \* index of the category of LISTING_URLS being crawled
    page_urls,   \* discover_pagination_urls' result for that category
    pidx,        \* index of the listing page of page_urls to fetch next
    all_urls,    \* the set all_urls of collect_all_articles
    discovered,  \* history: the URLs in the order they were first added
    todo,        \* sorted(all_urls), fixed when the article loop starts
    idx,         \* index in todo of the article to fetch next
    items,       \* the list items of collect_all_articles
    fetched,     \* history: per article URL, what the site answered and when
    overlap,     \* history: a listing page gave a link all_urls already held
    first_failed,\* history: the first category whose root page never came, or 0
    now,         \* the clock read by datetime.now
    feed,        \* the <item> entries of the document build_feed returns
    written,     \* whether main has written feed.xml
    arg,         \* the argument of the pure function under check
    res          \* its result

vars == <<pc, cat, page_urls, pidx, all_urls, discovered, todo, idx, items,
          fetched, overlap, first_failed, now, feed, written, arg, res>>

\* The variables of the run, left alone while a pure function is applied.
runVars == <<cat, page_urls, pidx, all_urls, discovered, todo, idx, items,
             fetched, overlap, first_failed, now, feed, written>>

-----------------------------------------------------------------------------
(* Bounds of the model *)

\* longest listing page, in anchors
MaxAnchors == 1

\* most anchors of a page given to extract_links_from_listing on its own
MaxLinkAnchors == 2

\* how far the clock may advance during the article loop
MaxClock == 1

\* longest lead text before its truncation, in characters
MaxLeadText == 8

-----------------------------------------------------------------------------
(* Strings *)

None == <<>>

Some(x) == <<x>>

\* `first`, or `second` when `first` is None
OrElse(first, second) == IF first # None THEN first ELSE second

\* s[i-1:i]: the character at position i, "" outside the text
Char(s, i) == IF i >= 1 /\ i <= Len(s) THEN SubSeq(s, i, i) ELSE ""

Digits == "0123456789"

LowerLetters == "abcdefghijklmnopqrstuvwxyz"

UpperLetters == "ABCDEFGHIJKLMNOPQRSTUVWXYZ"

\* The characters of the model's texts in code point order (the order str
\* comparison uses); "^" and "~" stand for code points above the ASCII range.
CodePoints == " !#&,-./0123456789:=?ABCDEFGHIJKLMNOPQRSTUVWXYZ_abcdefghijklmnopqrstuvwxyz^~"

IndexIn(c, alphabet) ==
    IF \E i \in 1..Len(alphabet) : Char(alphabet, i) = c
    THEN CHOOSE i \in 1..Len(alphabet) : Char(alphabet, i) = c
    ELSE 0

CharsOf(alphabet) == { Char(alphabet, i) : i \in 1..Len(alphabet) }

\* A table is a set of <<key, value>> pairs, built once; Lookup reads it.
Lookup(table, key) == (CHOOSE e \in table : e[1] = key)[2]

\* ord(c), up to the order
OrdTable == { <<c, IndexIn(c, CodePoints)>> : c \in CharsOf(CodePoints) }

Ord(c) == Lookup(OrdTable, c)

DigitChars == CharsOf(Digits)

LetterChars == CharsOf(LowerLetters \o UpperLetters \o "^")

HexChars == CharsOf("abcdef0123456789")

UpperChars == CharsOf(UpperLetters)

LowerTable == { <<c, Char(LowerLetters, IndexIn(c, UpperLetters))>> : c \in UpperChars }

DigitTable == { <<c, IndexIn(c, Digits) - 1>> : c \in DigitChars }

IsDigit(c) == c \in DigitChars

\* [A-Za-ząćęłńóśźż]
IsLetter(c) == c \in LetterChars

\* \s, and what str.split and str.rstrip treat as whitespace
IsSpace(c) == c = " "

LowerChar(c) == IF c \in UpperChars THEN Lookup(LowerTable, c) ELSE c

RECURSIVE Lower(_)
Lower(s) == IF s = "" THEN "" ELSE LowerChar(Char(s, 1)) \o Lower(SubSeq(s, 2, Len(s)))

StartsWithAt(s, i, p) == i + Len(p) - 1 <= Len(s) /\ SubSeq(s, i, i + Len(p) - 1) = p

StartsWith(s, p) == StartsWithAt(s, 1, p)

EndsWith(s, p) == Len(p) <= Len(s) /\ SubSeq(s, Len(s) - Len(p) + 1, Len(s)) = p

\* p in s
Contains(s, p) == \E i \in 1..(Len(s) + 1) : StartsWithAt(s, i, p)

\* s.find(p), 0-based, -1 when absent
Find(s, p) ==
    IF Contains(s, p)
    THEN (CHOOSE i \in 1..(Len(s) + 1) :
              StartsWithAt(s, i, p) /\ \A j \in 1..(i - 1) : ~StartsWithAt(s, j, p)) - 1
    ELSE -1

\* s.rfind(p), 0-based, -1 when absent
RFind(s, p) ==
    IF Contains(s, p)
    THEN (CHOOSE i \in 1..(Len(s) + 1) :
              StartsWithAt(s, i, p)
              /\ \A j \in (i + 1)..(Len(s) + 1) : ~StartsWithAt(s, j, p)) - 1
    ELSE -1

Max2(a, b) == IF a >= b THEN a ELSE b

Min2(a, b) == IF a <= b THEN a ELSE b

\* a < b for str: at the first position k where they differ, a has ended
\* and b has not, or a has the smaller code point.
StrLess(a, b) ==
    \E k \in 1..(Min2(Len(a), Len(b)) + 1) :
        /\ \A j \in 1..(k - 1) : Char(a, j) = Char(b, j)
        /\ k <= Len(b)
        /\ k <= Len(a) => Ord(Char(a, k)) < Ord(Char(b, k))

-----------------------------------------------------------------------------
(* Configuration (KONFIG) *)

BASE == "https://www.piotrkow.pl"

LISTING_URLS ==
    << "https://www.piotrkow.pl/nasze-miasto-t70/aktualnosci-a75",
       "https://www.piotrkow.pl/gospodarka-t71/aktualnosci-a107",
       "https://www.piotrkow.pl/kultura-i-edukacja-t72/aktualnosci-a108",
       "https://www.piotrkow.pl/sport-i-turystyka-t73/aktualnosci-a109" >>

MAX_PAGES_PER_LIST == 5

\* The configured maximum of feed items.  The program sets 300; the model
\* runs the same code with a maximum its bounded site can exceed.
MAX_ITEMS == 2

\* The configured maximum lead length.  The program sets 400; the model
\* applies first_sentence with a maximum its bounded texts can exceed.
MAX_LEAD == 6

\* range(1, 6) in get
ATTEMPTS == 5

\* [:40] of the guid expression
GUID_LEN == 40

PL_MONTHS ==
    [ name \in { "stycznia", "lutego", "marca", "kwietnia", "maja", "czerwca",
                 "lipca", "sierpnia", "wrze^nia", "wrzesnia", "pa^dziernika",
                 "pazdziernika", "listopada", "grudnia" } |->
        CASE name = "stycznia" -> 1
          [] name = "lutego" -> 2
          [] name = "marca" -> 3
          [] name = "kwietnia" -> 4
          [] name = "maja" -> 5
          [] name = "czerwca" -> 6
          [] name = "lipca" -> 7
          [] name = "sierpnia" -> 8
          [] name \in {"wrze^nia", "wrzesnia"} -> 9
          [] name \in {"pa^dziernika", "pazdziernika"} -> 10
          [] name = "listopada" -> 11
          [] name = "grudnia" -> 12 ]

-----------------------------------------------------------------------------
(* get: up to ATTEMPTS tries, the first response with status 200 wins *)

\* One try's outcome: status 200, another status, or 0 for a
\* requests.RequestException.
Outcome(status, body) == [status |-> status, body |-> body]

RECURSIVE GetFrom(_, _)
GetFrom(outcomes, attempt) ==
    IF attempt > ATTEMPTS THEN None
    ELSE IF outcomes[attempt].status = 200 THEN Some(outcomes[attempt].body)
    ELSE GetFrom(outcomes, attempt + 1)

\* get without its retry loop: only the first try counts.  A fault the
\* properties of a failed fetch must tell from get.
get_once(outcomes) ==
    IF outcomes[1].status = 200 THEN Some(outcomes[1].body) ELSE None

\* get(url): the response of the first try answered 200, None after five
\* tries without one.
get(outcomes) == GetFrom(outcomes, 1)

\* The runs of tries the site answers with: `fails` tries that end with
\* `status` (0 or a status other than 200), the later ones answered 200.
Tries(fails, status, body) ==
    [attempt \in 1..ATTEMPTS |->
        IF attempt <= fails THEN Outcome(status, body) ELSE Outcome(200, body)]

\* The runs the model draws for one URL: answered at once, answered on the
\* third try, and never answered (by a status, by exceptions).  A run that
\* is never answered has no body to choose.
Answers(bodies, nobody) ==
    { Tries(fails, 503, body) : fails \in {0, 2}, body \in bodies }
        \cup { Tries(ATTEMPTS, status, nobody) : status \in {0, 503} }

-----------------------------------------------------------------------------
(* urllib.parse.urljoin(BASE, href), for hrefs without dot segments *)

urljoin(base, href) ==
    IF href = "" THEN base
    ELSE IF StartsWith(href, "https://") \/ StartsWith(href, "http://") THEN href
    ELSE IF StartsWith(href, "//") THEN "https:" \o href
    ELSE IF StartsWith(href, "/") \/ StartsWith(href, "?") \/ StartsWith(href, "#")
         THEN base \o href
    ELSE base \o "/" \o href

-----------------------------------------------------------------------------
(* Listing pages.  A page is the sequence of its <a> elements; an anchor    *)
(* is its href and whether one of the tile selectors selects it.            *)

Anchor(href, tile) == [href |-> href, tile |-> tile]

\* The loop over a[href]: hrefs with "?" and "page=" or "strona=", each once.
RECURSIVE PaginationLinks(_, _, _)
PaginationLinks(page, urls, i) ==
    IF i > Len(page) THEN urls
    ELSE LET href == page[i].href
             full == urljoin(BASE, href)
         IN  IF Contains(href, "?")
                /\ (Contains(href, "page=") \/ Contains(href, "strona="))
                /\ \A k \in 1..Len(urls) : urls[k] # full
             THEN PaginationLinks(page, Append(urls, full), i + 1)
             ELSE PaginationLinks(page, urls, i + 1)

\* The loop over p in range(2, MAX_PAGES_PER_LIST + 1) and the two parameters.
RECURSIVE GuessedPages(_, _, _)
GuessedPages(first_url, urls, p) ==
    IF p > MAX_PAGES_PER_LIST THEN urls
    ELSE LET sep == IF Contains(first_url, "?") THEN "&" ELSE "?"
         IN  GuessedPages(first_url,
                          urls \o << first_url \o sep \o "page=" \o ToString(p),
                                     first_url \o sep \o "strona=" \o ToString(p) >>,
                          p + 1)

discover_pagination_urls(first_url, page) ==
    LET found == PaginationLinks(page, <<first_url>>, 1)
        urls  == IF Len(found) = 1 THEN GuessedPages(first_url, found, 2) ELSE found
    IN  SubSeq(urls, 1, Min2(Len(urls), MAX_PAGES_PER_LIST))

is_article_href(href) ==
    IF href = "" THEN FALSE
    ELSE IF StartsWith(href, "#") THEN FALSE
    ELSE IF Contains(href, "aktualnosci-a") THEN FALSE
    ELSE \E p \in { "/nasze-miasto-t70/", "/gospodarka-t71/",
                    "/kultura-i-edukacja-t72/", "/sport-i-turystyka-t73/",
                    "/artykul/" } : Contains(href, p)

\* An anchor one of the six selectors selects.
Selected(a) ==
    \/ a.tile
    \/ StartsWith(a.href, "https://www.piotrkow.pl/")
    \/ StartsWith(a.href, "/")

\* The set links just before `return list(links)`.
extract_links_from_listing(page) ==
    LET tier1 == { urljoin(BASE, page[i].href) :
                     i \in { k \in 1..Len(page) :
                               Selected(page[k]) /\ is_article_href(page[k].href) } }
        tier2 == { urljoin(BASE, page[i].href) :
                     i \in { k \in 1..Len(page) : is_article_href(page[k].href) } }
    IN  IF tier1 # {} THEN tier1 ELSE tier2

-----------------------------------------------------------------------------
(* datetime values, all of them aware and in UTC *)

DateTime(year, mon, day, hh, mm, ss) ==
    [year |-> year, mon |-> mon, day |-> day, hh |-> hh, mm |-> mm, ss |-> ss]

IsLeap(year) == (year % 4 = 0 /\ year % 100 # 0) \/ year % 400 = 0

DaysInMonth(year, mon) ==
    IF mon = 2 THEN (IF IsLeap(year) THEN 29 ELSE 28)
    ELSE IF mon \in {4, 6, 9, 11} THEN 30 ELSE 31

\* Whether datetime(year, mon, day, hh, mm) is a value (no ValueError).
ValidDateTime(year, mon, day, hh, mm, ss) ==
    /\ year \in 1..9999
    /\ mon \in 1..12
    /\ day >= 1 /\ day <= DaysInMonth(year, mon)
    /\ hh \in 0..23
    /\ mm \in 0..59
    /\ ss \in 0..59

\* The order of two datetimes is the order of their days, then of their
\* seconds in the day.
DayKey(dt) == (dt.year * 12 + dt.mon) * 31 + dt.day

SecondKey(dt) == (dt.hh * 60 + dt.mm) * 60 + dt.ss

\* a < b for datetime
Earlier(a, b) ==
    DayKey(a) < DayKey(b) \/ (DayKey(a) = DayKey(b) /\ SecondKey(a) < SecondKey(b))

RECURSIVE ToInt(_)
ToInt(s) ==
    IF s = "" THEN 0
    ELSE 10 * ToInt(SubSeq(s, 1, Len(s) - 1)) + Lookup(DigitTable, Char(s, Len(s)))

AllDigits(s, from, n) ==
    from + n - 1 <= Len(s) /\ \A k \in from..(from + n - 1) : IsDigit(Char(s, k))

\* The first position at or after `from` that holds no whitespace.
RECURSIVE SkipSpaces(_, _)
SkipSpaces(s, from) ==
    IF from <= Len(s) /\ IsSpace(Char(s, from)) THEN SkipSpaces(s, from + 1) ELSE from

\* The first position at or after `from` that holds no letter.
RECURSIVE SkipLetters(_, _)
SkipLetters(s, from) ==
    IF from <= Len(s) /\ IsLetter(Char(s, from)) THEN SkipLetters(s, from + 1) ELSE from

\* str.strip
RECURSIVE Strip(_)
Strip(s) ==
    IF s = "" THEN ""
    ELSE IF IsSpace(Char(s, 1)) THEN Strip(SubSeq(s, 2, Len(s)))
    ELSE IF IsSpace(Char(s, Len(s))) THEN Strip(SubSeq(s, 1, Len(s) - 1))
    ELSE s

\* re.sub(r"(?i)Opublikowano:\s*", "", text)
RECURSIVE DropPublishedLabel(_)
DropPublishedLabel(text) ==
    LET at == Find(Lower(text), "opublikowano:")
    IN  IF at = -1 THEN text
        ELSE SubSeq(text, 1, at)
             \o DropPublishedLabel(
                    SubSeq(text, SkipSpaces(text, at + 1 + Len("opublikowano:")), Len(text)))

\* re.sub(r"(?i)Aktualizacja:\s*.*$", "", text)
DropUpdatedTail(text) ==
    LET at == Find(Lower(text), "aktualizacja:")
    IN  IF at = -1 THEN text ELSE SubSeq(text, 1, at)

\* The optional group (?:\s+(\d{1,2}):(\d{2}))? tried at position p, right
\* after the year: <<hh, mm>> as texts, or <<>> when the group does not match.
TimeGroup(text, p) ==
    LET q == SkipSpaces(text, p)
        n == IF AllDigits(text, q, 2) /\ Char(text, q + 2) = ":" THEN 2
             ELSE IF AllDigits(text, q, 1) /\ Char(text, q + 1) = ":" THEN 1
             ELSE 0
    IN  IF q > p /\ n > 0 /\ AllDigits(text, q + n + 1, 2)
        THEN << SubSeq(text, q, q + n - 1), SubSeq(text, q + n + 1, q + n + 2) >>
        ELSE <<>>

\* (\d{1,2})\s+([A-Za-z...]+)\s+(\d{4})(?:\s+(\d{1,2}):(\d{2}))? matched at
\* position i with a day of n digits: the groups, or <<>> for no match.
MonthNameMatchAt(text, i, n) ==
    LET a == i + n                   \* after the day
        b == SkipSpaces(text, a)     \* the name
        c == SkipLetters(text, b)    \* after the name
        d == SkipSpaces(text, c)     \* the year
    IN  IF AllDigits(text, i, n) /\ b > a /\ c > b /\ d > c /\ AllDigits(text, d, 4)
        THEN << [ day  |-> SubSeq(text, i, a - 1),
                  name |-> SubSeq(text, b, c - 1),
                  year |-> SubSeq(text, d, d + 3),
                  time |-> TimeGroup(text, d + 4) ] >>
        ELSE <<>>

\* re.search of that pattern: the leftmost match, the longer day first.
RECURSIVE MonthNameSearch(_, _)
MonthNameSearch(text, i) ==
    IF i > Len(text) THEN <<>>
    ELSE OrElse(MonthNameMatchAt(text, i, 2),
                OrElse(MonthNameMatchAt(text, i, 1), MonthNameSearch(text, i + 1)))

\* datetime.fromisoformat(text.replace("Z", "+00:00")).astimezone(utc), for
\* the texts YYYY-MM-DDTHH:MM and YYYY-MM-DDTHH:MM:SS followed by Z or +00:00;
\* the model draws no other text that fromisoformat accepts.
FromIso(text) ==
    LET body == IF EndsWith(text, "Z") THEN SubSeq(text, 1, Len(text) - 1)
                ELSE IF EndsWith(text, "+00:00") THEN SubSeq(text, 1, Len(text) - 6)
                ELSE ""
        shape == /\ Len(body) \in {16, 19}
                 /\ AllDigits(body, 1, 4) /\ Char(body, 5) = "-"
                 /\ AllDigits(body, 6, 2) /\ Char(body, 8) = "-"
                 /\ AllDigits(body, 9, 2) /\ Char(body, 11) = "T"
                 /\ AllDigits(body, 12, 2) /\ Char(body, 14) = ":"
                 /\ AllDigits(body, 15, 2)
                 /\ (Len(body) = 19 => Char(body, 17) = ":" /\ AllDigits(body, 18, 2))
        year == ToInt(SubSeq(body, 1, 4))
        mon  == ToInt(SubSeq(body, 6, 7))
        day  == ToInt(SubSeq(body, 9, 10))
        hh   == ToInt(SubSeq(body, 12, 13))
        mm   == ToInt(SubSeq(body, 15, 16))
        ss   == IF Len(body) = 19 THEN ToInt(SubSeq(body, 18, 19)) ELSE 0
    IN  IF shape /\ ValidDateTime(year, mon, day, hh, mm, ss)
        THEN Some(DateTime(year, mon, day, hh, mm, ss))
        ELSE None

\* The branch `if m:` of parse_pl_date: Some(datetime) when it returns.
FromMonthName(m) ==
    LET day      == ToInt(m.day)
        mon_name == Lower(m.name)
        year     == ToInt(m.year)
        hh       == IF m.time # <<>> THEN ToInt(m.time[1]) ELSE 0
        mm       == IF m.time # <<>> THEN ToInt(m.time[2]) ELSE 0
        mon      == IF mon_name \in DOMAIN PL_MONTHS THEN PL_MONTHS[mon_name] ELSE 0
    IN  IF mon # 0 /\ ValidDateTime(year, mon, day, hh, mm, 0)
        THEN Some(DateTime(year, mon, day, hh, mm, 0))
        ELSE None

\* The month-name branch on the search's result m.
ByMonthName(m) == IF m # <<>> THEN FromMonthName(m[1]) ELSE None

\* parse_pl_date after the prefixes are cut: the month-name format first,
\* the ISO format when it yields nothing.
ParseCleaned(text) == OrElse(ByMonthName(MonthNameSearch(text, 1)), FromIso(text))

\* html.unescape is the identity on the model's texts, which hold no
\* character reference.
parse_pl_date(raw) == ParseCleaned(DropUpdatedTail(DropPublishedLabel(Strip(raw))))

-----------------------------------------------------------------------------
(* first_sentence *)

\* " ".join(s.split()): runs of whitespace become one space, the ends lose theirs
RECURSIVE Squeeze(_)
Squeeze(s) ==
    IF Len(s) < 2 THEN s
    ELSE IF IsSpace(Char(s, 1)) /\ IsSpace(Char(s, 2)) THEN Squeeze(SubSeq(s, 2, Len(s)))
    ELSE Char(s, 1) \o Squeeze(SubSeq(s, 2, Len(s)))

JoinSplit(s) == Strip(Squeeze(s))

\* str.rstrip
RECURSIVE RStrip(_)
RStrip(s) ==
    IF s # "" /\ IsSpace(Char(s, Len(s))) THEN RStrip(SubSeq(s, 1, Len(s) - 1)) ELSE s

\* The hard cut of first_sentence: cut.rstrip() + "…"
HardCut(cut) == RStrip(cut) \o "~"

\* end + 1 >= max_len * 0.6 and end >= max_len * 0.5, in integers
first_sentence(raw, max_len) ==
    LET s == JoinSplit(raw)
    IN  IF Len(s) <= max_len
        THEN LET end == Max2(Max2(RFind(s, ". "), RFind(s, "~ ")),
                             Max2(RFind(s, "! "), RFind(s, "? ")))
             IN  IF end # -1 /\ 10 * (end + 1) >= 6 * max_len
                 THEN SubSeq(s, 1, end + 1)
                 ELSE s
        ELSE LET cut == SubSeq(s, 1, max_len)
                 end == RFind(cut, ". ")
             IN  IF 2 * end >= max_len
                 THEN SubSeq(cut, 1, end + 1)
                 ELSE HardCut(cut)

-----------------------------------------------------------------------------
(* extract_article.  An article page is what the extraction reads of it:   *)
(*   og_title, h1        the contents of og:title and of the first h1/h2   *)
(*   meta_dates          the contents of article:published_time,           *)
(*                       og:published_time, article:modified_time, in that *)
(*                       order, the absent ones left out                   *)
(*   time_text           the <time> element's datetime or text             *)
(*   label_text          the first text node matching "opublikowano"       *)
(*   og_description      the content of og:description                     *)
(*   paragraphs          the texts of the <p> elements the lead is sought  *)
(*                       in                                                *)
(* "" is an absent element.  The record's image, which nothing downstream  *)
(* of the model reads, is left out.                                        *)

ArticlePage(og_title, h1, meta_dates, time_text, label_text, og_description, paragraphs) ==
    [ og_title |-> og_title, h1 |-> h1, meta_dates |-> meta_dates,
      time_text |-> time_text, label_text |-> label_text,
      og_description |-> og_description, paragraphs |-> paragraphs ]

\* datetime.now(timezone.utc) when the clock shows t
NowAt(t) == DateTime(2026, 1, 1, 0, 0, t)

\* The for loop over the three meta names: the first content that parses.
RECURSIVE FirstParsed(_, _)
FirstParsed(texts, i) ==
    IF i > Len(texts) THEN None
    ELSE OrElse(parse_pl_date(texts[i]), FirstParsed(texts, i + 1))

\* `if not pub:` and the element is there: pub = parse_pl_date(text)
ElseParsed(pub, text) == IF pub = None /\ text # "" THEN parse_pl_date(text) ELSE pub

\* `if not pub: pub = datetime.now(timezone.utc)`
ElseNow(pub, t) == IF pub = None THEN NowAt(t) ELSE pub[1]

\* The first paragraph of more than 30 characters, "" when there is none.
RECURSIVE FirstLongParagraph(_, _)
FirstLongParagraph(ps, i) ==
    IF i > Len(ps) THEN ""
    ELSE IF Len(ps[i]) > 30 THEN ps[i]
    ELSE FirstLongParagraph(ps, i + 1)

\* The lead of the record: `if lead: lead = first_sentence(lead, MAX_LEAD)`.
TruncateLead(lead) == IF lead # "" THEN first_sentence(lead, MAX_LEAD) ELSE ""

\* The title when the page gives one: og:title, else the first h1/h2.
PageTitle(og_title, h1) == IF og_title # "" THEN og_title ELSE h1

\* The lead before its truncation: og:description, else the first paragraph
\* of more than 30 characters.
LeadSource(og_description, paragraphs) ==
    IF og_description # "" THEN og_description ELSE FirstLongParagraph(paragraphs, 1)

\* What extract_article reads off a page, before the defaults for the title
\* (the URL) and the date (now).
PageFields(page) ==
    [ title |-> PageTitle(Strip(page.og_title), page.h1),
      pub   |-> ElseParsed(ElseParsed(FirstParsed(page.meta_dates, 1), page.time_text),
                           page.label_text),
      lead  |-> TruncateLead(LeadSource(Strip(page.og_description), page.paragraphs)) ]

-----------------------------------------------------------------------------
(* Aggregation and the feed *)

\* sorted(S) for a set of str
RECURSIVE Sorted(_)
Sorted(S) ==
    IF S = {} THEN <<>>
    ELSE LET least == CHOOSE u \in S : \A v \in S \ {u} : StrLess(u, v)
         IN  <<least>> \o Sorted(S \ {least})

\* A step that puts x before the elements of equal key: the sort it gives is
\* descending but not stable.
RECURSIVE InsertBeforeEqual(_, _)
InsertBeforeEqual(sorted, x) ==
    IF sorted = <<>> THEN <<x>>
    ELSE IF Earlier(x.pubdate, Head(sorted).pubdate)
         THEN <<Head(sorted)>> \o InsertBeforeEqual(Tail(sorted), x)
         ELSE <<x>> \o sorted

\* A step of an ascending sort, and the sort without reverse=True.
RECURSIVE InsertAsc(_, _)
InsertAsc(sorted, x) ==
    IF sorted = <<>> THEN <<x>>
    ELSE IF ~Earlier(x.pubdate, Head(sorted).pubdate)
         THEN <<Head(sorted)>> \o InsertAsc(Tail(sorted), x)
         ELSE <<x>> \o sorted

RECURSIVE SortByPubdateAsc(_)
SortByPubdateAsc(list) ==
    IF list = <<>> THEN <<>>
    ELSE InsertAsc(SortByPubdateAsc(SubSeq(list, 1, Len(list) - 1)), list[Len(list)])

\* One step of a stable descending sort: x goes behind every element whose
\* key is not smaller than its own.
RECURSIVE InsertDesc(_, _)
InsertDesc(sorted, x) ==
    IF sorted = <<>> THEN <<x>>
    ELSE IF ~Earlier(Head(sorted).pubdate, x.pubdate)
         THEN <<Head(sorted)>> \o InsertDesc(Tail(sorted), x)
         ELSE <<x>> \o sorted

\* items.sort(key=lambda x: x["pubdate"], reverse=True): stable, descending
RECURSIVE SortByPubdateDesc(_)
SortByPubdateDesc(list) ==
    IF list = <<>> THEN <<>>
    ELSE InsertDesc(SortByPubdateDesc(SubSeq(list, 1, Len(list) - 1)), list[Len(list)])

\* re.sub(r"^https?://", "", url)
DropScheme(url) ==
    IF StartsWith(url, "https://") THEN SubSeq(url, 9, Len(url))
    ELSE IF StartsWith(url, "http://") THEN SubSeq(url, 8, Len(url))
    ELSE url

\* re.sub(r"[^a-f0-9]", "", s)
RECURSIVE KeepHex(_)
KeepHex(s) ==
    IF s = "" THEN ""
    ELSE (IF Char(s, 1) \in HexChars THEN Char(s, 1) ELSE "")
         \o KeepHex(SubSeq(s, 2, Len(s)))

\* The text of an item's <guid>.
guid(url) ==
    LET hex == KeepHex(DropScheme(Lower(url)))
    IN  SubSeq(hex, 1, Min2(Len(hex), GUID_LEN))

\* items[:MAX_ITEMS + 1]: the slice off by one.
CappedOffByOne(list) == SubSeq(list, 1, Min2(Len(list), MAX_ITEMS + 1))

\* items[:MAX_ITEMS]
Capped(list) == SubSeq(list, 1, Min2(Len(list), MAX_ITEMS))

-----------------------------------------------------------------------------
(* The site the run crawls *)

SeqsUpTo(S, n) == UNION { [1..k -> S] : k \in 0..n }

\* The anchors of the listing pages: two hrefs of one article, a link under
\* a category path, a link only the fallback scan reaches, a pagination link.
ListingAnchors ==
    { Anchor("/artykul/x1", FALSE),
      Anchor("https://www.piotrkow.pl/artykul/x1", TRUE),
      Anchor("/gospodarka-t71/b2", TRUE),
      Anchor("http://www.piotrkow.pl/artykul/y1", FALSE),
      Anchor("/nasze-miasto-t70/aktualnosci-a75?page=2", FALSE) }

ListingPages == SeqsUpTo(ListingAnchors, MaxAnchors)

\* Three article pages: a date in the second meta tag, a date in the
\* "Opublikowano" text, no date at all.
ArticlePages ==
    { ArticlePage("Tytul", "", <<"wczoraj", "2025-10-13T14:32:00Z">>, "", "",
                  "Ala ma kota. Kot.", <<>>),
      ArticlePage("", "Naglowek", <<>>, "dzisiaj", "Opublikowano: 12 maja 2024 9:05", "",
                  <<"Krotki.", "Pierwszy akapit. Ma ponad trzydziesci znakow.">>),
      ArticlePage("", "", <<>>, "", "", "", <<>>) }

NoPage == <<>>

\* What the site may answer for a listing URL and for an article URL.
ListingAnswers == Answers(ListingPages, NoPage)

ArticleAnswers == Answers(ArticlePages, NoPage)

\* The program's functions on the pages of the site, each computed once.
PaginationOfPage ==
    { << <<c, page>>, discover_pagination_urls(LISTING_URLS[c], page) >> :
        c \in 1..Len(LISTING_URLS), page \in ListingPages }

LinksOfPage == { <<page, extract_links_from_listing(page)>> : page \in ListingPages }

FieldsOfPage == { <<page, PageFields(page)>> : page \in ArticlePages }

\* The guid of every URL a listing page of the site can give.
GuidOfUrl ==
    { <<url, guid(url)>> : url \in UNION { Lookup(LinksOfPage, page) : page \in ListingPages } }

\* The <item> elements of build_feed(list), each as its link, its guid and
\* the datetime its pubDate is formatted from.
build_feed(list) ==
    [ i \in 1..Len(Capped(list)) |->
        [ link    |-> list[i].url,
          guid    |-> Lookup(GuidOfUrl, list[i].url),
          pubdate |-> list[i].pubdate ] ]

\* The record extract_article builds of a fetched page: `if not title:
\* title = url`, `if not pub: pub = datetime.now(timezone.utc)`.
RecordOf(url, page, t) ==
    [ url     |-> url,
      title   |-> IF Lookup(FieldsOfPage, page).title # ""
                  THEN Lookup(FieldsOfPage, page).title ELSE url,
      pubdate |-> ElseNow(Lookup(FieldsOfPage, page).pub, t),
      lead    |-> Lookup(FieldsOfPage, page).lead ]

\* extract_article(url) when get(url) returned `r` and the clock shows t.
extract_article(url, r, t) == IF r = None THEN None ELSE Some(RecordOf(url, r[1], t))

\* The orders list(links) may give the elements of the set links.
Orders(S) == { o \in [1..Cardinality(S) -> S] : \A u \in S : \E i \in DOMAIN o : o[i] = u }

\* The elements of list that are not in S, in their order.
RECURSIVE Without(_, _)
Without(list, S) ==
    IF list = <<>> THEN <<>>
    ELSE (IF Head(list) \in S THEN <<>> ELSE <<Head(list)>>) \o Without(Tail(list), S)

-----------------------------------------------------------------------------
(* The run: main, collect_all_articles *)

\* The run's variables before main starts.
RunInit ==
    /\ cat = 1
    /\ page_urls = <<>>
    /\ pidx = 1
    /\ all_urls = {}
    /\ discovered = <<>>
    /\ todo = <<>>
    /\ idx = 1
    /\ items = <<>>
    /\ fetched = <<>>
    /\ overlap = FALSE
    /\ first_failed = 0
    /\ now = 0
    /\ feed = <<>>
    /\ written = FALSE

Init ==
    /\ pc = "category"
    /\ RunInit
    /\ arg = ""
    /\ res = ""

\* Whether one of the tries was answered with status 200.
Answered(outcomes) == \E attempt \in 1..ATTEMPTS : outcomes[attempt].status = 200

\* NextCategory with all_urls a list that repeats its URLs: the article
\* loop goes through every URL twice.
NextCategoryRepeated(c, urls) ==
    /\ cat' = c
    /\ page_urls' = <<>>
    /\ pidx' = 1
    /\ IF c > Len(LISTING_URLS)
       THEN pc' = "articles" /\ todo' = Sorted(urls) \o Sorted(urls)
       ELSE pc' = "category" /\ todo' = todo

\* `for base_url in LISTING_URLS` moves on to category c, or ends: then
\* `sorted(all_urls)` fixes the order of the article loop.  page_urls is
\* dead between two categories and is cleared.
NextCategory(c, urls) ==
    /\ cat' = c
    /\ page_urls' = <<>>
    /\ pidx' = 1
    /\ IF c > Len(LISTING_URLS)
       THEN pc' = "articles" /\ todo' = Sorted(urls)
       ELSE pc' = "category" /\ todo' = todo

\* A failed category root that ends the run instead of `continue`.
AbortRun ==
    /\ pc' = "failed"
    /\ UNCHANGED <<cat, page_urls, pidx, todo>>

\* `if not r: logging.warning(...); continue` in the loop over LISTING_URLS
SkipCategory == NextCategory(cat + 1, all_urls)

\* r = get(base_url), then discover_pagination_urls
FetchCategory ==
    /\ pc = "category"
    /\ \E outcomes \in ListingAnswers :
         LET r == get(outcomes)
         IN  /\ IF r = None
                THEN SkipCategory
                ELSE /\ page_urls' = Lookup(PaginationOfPage, <<cat, r[1]>>)
                     /\ pidx' = 1
                     /\ pc' = "pages"
                     /\ UNCHANGED <<cat, todo>>
             /\ first_failed' = IF first_failed = 0 /\ ~Answered(outcomes)
                                THEN cat ELSE first_failed
    /\ UNCHANGED <<all_urls, discovered, idx, items, fetched, overlap, now, feed, written,
                   arg, res>>

\* rr = get(pu); `continue` on None, else the page's links join all_urls
FetchListingPage ==
    /\ pc = "pages"
    /\ \E outcomes \in ListingAnswers :
         LET rr    == get(outcomes)
             links == IF rr = None THEN {} ELSE Lookup(LinksOfPage, rr[1])
         IN  \E order \in Orders(links) :
               /\ all_urls' = all_urls \cup links
               /\ discovered' = discovered \o Without(order, all_urls)
               /\ overlap' = (overlap \/ links \cap all_urls # {})
               /\ IF pidx < Len(page_urls)
                  THEN pidx' = pidx + 1 /\ UNCHANGED <<pc, cat, page_urls, todo>>
                  ELSE NextCategory(cat + 1, all_urls \cup links)
    /\ UNCHANGED <<idx, items, fetched, first_failed, now, feed, written, arg, res>>

\* art = extract_article(u); `if not art: continue`; items.append(art)
FetchArticle ==
    /\ pc = "articles"
    /\ idx <= Len(todo)
    /\ \E outcomes \in ArticleAnswers, t \in now..Min2(now + 1, MaxClock) :
         LET u   == todo[idx]
             art == extract_article(u, get(outcomes), t)
         IN  /\ items' = items \o art
             /\ fetched' = fetched @@ (u :> [ answered |-> Answered(outcomes),
                                             page |-> outcomes[ATTEMPTS].body,
                                             at |-> t ])
             /\ now' = t
    /\ idx' = idx + 1
    /\ UNCHANGED <<pc, cat, page_urls, pidx, all_urls, discovered, todo, overlap,
                   first_failed, feed, written, arg, res>>

\* The end of collect_all_articles: items.sort(...); return items
SortAndReturn ==
    /\ pc = "articles"
    /\ idx > Len(todo)
    /\ items' = SortByPubdateDesc(items)
    /\ pc' = "build"
    /\ UNCHANGED <<cat, page_urls, pidx, all_urls, discovered, todo, idx, fetched, overlap,
                   first_failed, now, feed, written, arg, res>>

\* main: xml_bytes = build_feed(items); feed.xml is written
WriteFeed ==
    /\ pc = "build"
    /\ feed' = build_feed(items)
    /\ written' = TRUE
    /\ pc' = "done"
    /\ UNCHANGED <<cat, page_urls, pidx, all_urls, discovered, todo, idx, items, fetched,
                   overlap, first_failed, now, arg, res>>

Next == FetchCategory \/ FetchListingPage \/ FetchArticle \/ SortAndReturn \/ WriteFeed

Spec == Init /\ [][Next]_vars

\* The run is one sequential process: a step that can be taken is taken.
FairSpec == Spec /\ WF_vars(Next)

-----------------------------------------------------------------------------
(* The pure functions, each applied to the texts of a bounded set *)

\* The texts of at most n characters over the characters of alphabet.
RECURSIVE TextsUpTo(_, _)
TextsUpTo(alphabet, n) ==
    IF n = 0 THEN {""}
    ELSE TextsUpTo(alphabet, n - 1)
         \cup { s \o c : s \in TextsUpTo(alphabet, n - 1), c \in CharsOf(alphabet) }

\* extract_links_from_listing on pages that also link to files, to a
\* listing, to a fragment, and hold an anchor without href.
LinkAnchors ==
    { Anchor("/artykul/x1", FALSE),
      Anchor("/nasze-miasto-t70/plik.pdf", FALSE),
      Anchor("/pliki/mapa.jpg", FALSE),
      Anchor("/artykul/foto.png", TRUE),
      Anchor("/kultura-i-edukacja-t72/aktualnosci-a108/regulamin.pdf", FALSE),
      Anchor("/nasze-miasto-t70/aktualnosci-a75", FALSE),
      Anchor("http://www.piotrkow.pl/artykul/y1", FALSE),
      Anchor("#top", FALSE),
      Anchor("", TRUE) }

LinkPages == SeqsUpTo(LinkAnchors, MaxLinkAnchors)

InitLinks ==
    /\ pc = "call_links"
    /\ RunInit
    /\ arg \in LinkPages
    /\ res = {}

ExtractLinks ==
    /\ pc = "call_links"
    /\ res' = extract_links_from_listing(arg)
    /\ pc' = "return_links"
    /\ UNCHANGED <<runVars, arg>>

NextLinks == ExtractLinks

SpecLinks == InitLinks /\ [][NextLinks]_vars

\* parse_pl_date on texts put together from a prefix, a day, a month name,
\* a year and a tail, and on a few texts of other shapes.
DatePrefixes == { "", "Opublikowano: ", "poniedzia^ek, " }

DayTexts == { "13", "3", "31", "113" }

MonthTexts == { "pa^dziernika", "pazdziernika", "Maja", "lutego", "brumaire" }

YearTexts == { "2025", "2024" }

DateTails ==
    { "", " 14:32", ", 14:32", "  9:05", " 25:00", " 14:32 Aktualizacja: 1 maja 2020 8:00" }

DateTexts ==
    { p \o d \o " " \o m \o " " \o y \o t :
        p \in DatePrefixes, d \in DayTexts, m \in MonthTexts, y \in YearTexts,
        t \in DateTails }
        \cup { "", "wczoraj", " 13 maja 2025 ", "13 maja2025", "2025-10-13T14:32:00Z",
               "2025-10-13T14:32Z", "2025-10-13T14:32:07+00:00", "2025-02-30T10:00:00Z",
               "2025-10-13T24:00:00Z" }

InitDate ==
    /\ pc = "call_date"
    /\ RunInit
    /\ arg \in DateTexts
    /\ res = None

ParseDate ==
    /\ pc = "call_date"
    /\ res' = parse_pl_date(arg)
    /\ pc' = "return_date"
    /\ UNCHANGED <<runVars, arg>>

NextDate == ParseDate

SpecDate == InitDate /\ [][NextDate]_vars

\* The lead of extract_article on the texts of at most MaxLeadText characters.
LeadAlphabet == "a. "

LeadTexts == TextsUpTo(LeadAlphabet, MaxLeadText)

InitLead ==
    /\ pc = "call_lead"
    /\ RunInit
    /\ arg \in LeadTexts
    /\ res = ""

LeadOfArticle ==
    /\ pc = "call_lead"
    /\ res' = TruncateLead(arg)
    /\ pc' = "return_lead"
    /\ UNCHANGED <<runVars, arg>>

NextLead == LeadOfArticle

SpecLead == InitLead /\ [][NextLead]_vars

-----------------------------------------------------------------------------
(* Properties of a run *)

\* The position of x in list.
PosIn(list, x) == CHOOSE i \in DOMAIN list : list[i] = x

FeedLinks == { feed[i].link : i \in DOMAIN feed }

SameInstant(a, b) == ~Earlier(a, b) /\ ~Earlier(b, a)

\* C1: no two article records of the run have the same url, neither in the
\* list collect_all_articles builds nor among the items of the feed.
C1_UniqueUrls ==
    /\ \A i, j \in DOMAIN items : i # j => items[i].url # items[j].url
    /\ \A i, j \in DOMAIN feed : i # j => feed[i].link # feed[j].link

\* A feed of two items written after a listing page linked to an article
\* that an earlier page had already given.
C1_Witness == written /\ overlap /\ Len(feed) >= 2

\* C2: the list collect_all_articles returns and the items of the feed are
\* in descending order of publishedAt: no record is followed by a later one,
\* and the cut to MAX_ITEMS keeps that order.
C2_SortedDescending ==
    /\ pc \in {"build", "done"} =>
         \A i \in 1..(Len(items) - 1) : ~Earlier(items[i].pubdate, items[i + 1].pubdate)
    /\ \A i \in 1..(Len(feed) - 1) : ~Earlier(feed[i].pubdate, feed[i + 1].pubdate)

\* A feed cut to MAX_ITEMS whose first item is strictly later than its
\* second, and was fetched after it.
C2_Witness ==
    /\ written
    /\ Len(items) > MAX_ITEMS
    /\ Len(feed) >= 2
    /\ Earlier(feed[2].pubdate, feed[1].pubdate)
    /\ PosIn(todo, feed[1].link) > PosIn(todo, feed[2].link)

\* C3 as the specification states it: records with equal publishedAt keep
\* the order in which their URLs were discovered.
C3_TiesInDiscoveryOrder ==
    written =>
        \A i, j \in DOMAIN feed :
            i < j /\ SameInstant(feed[i].pubdate, feed[j].pubdate)
                => PosIn(discovered, feed[i].link) < PosIn(discovered, feed[j].link)

\* C3: records with equal publishedAt are in ascending order of their URLs,
\* the order of sorted(all_urls) in which they were fetched, in the list
\* collect_all_articles returns and in the feed.
C3_TiesInUrlOrder ==
    /\ pc \in {"build", "done"} =>
         \A i, j \in DOMAIN items :
             i < j /\ SameInstant(items[i].pubdate, items[j].pubdate)
                 => StrLess(items[i].url, items[j].url)
    /\ \A i, j \in DOMAIN feed :
           i < j /\ SameInstant(feed[i].pubdate, feed[j].pubdate)
               => StrLess(feed[i].link, feed[j].link)

\* A feed with two items of equal publishedAt, the first of them discovered
\* after the second.
C3_Witness ==
    /\ written
    /\ \E i, j \in DOMAIN feed :
         /\ i < j
         /\ SameInstant(feed[i].pubdate, feed[j].pubdate)
         /\ PosIn(discovered, feed[i].link) > PosIn(discovered, feed[j].link)

\* C4: the feed never holds more than MAX_ITEMS items; once written it holds
\* the first MAX_ITEMS records of the sorted list (all of them if there are
\* fewer), in their order, and no record left out is later than one kept.
C4_AtMostMaxItems ==
    /\ Len(feed) <= MAX_ITEMS
    /\ written =>
         /\ Len(feed) = Min2(Len(items), MAX_ITEMS)
         /\ \A i \in DOMAIN feed :
              feed[i].link = items[i].url /\ feed[i].pubdate = items[i].pubdate
         /\ \A i \in DOMAIN feed, k \in DOMAIN items :
              k > Len(feed) => ~Earlier(feed[i].pubdate, items[k].pubdate)

\* A feed written of more than MAX_ITEMS records.
C4_Witness == written /\ Len(items) > MAX_ITEMS /\ Len(feed) = MAX_ITEMS

\* C5: of the URLs the article loop has gone through, one whose fetch was
\* never answered has no record, and every one that was answered has the
\* record of its own page, whatever happened to the others; the feed holds
\* answered URLs only.
C5_FailedFetchOnlyDropsItsUrl ==
    /\ pc \in {"articles", "build", "done"} =>
         \A k \in 1..(idx - 1) :
             IF fetched[todo[k]].answered
             THEN \E i \in DOMAIN items :
                      items[i] = RecordOf(todo[k], fetched[todo[k]].page, fetched[todo[k]].at)
             ELSE \A i \in DOMAIN items : items[i].url # todo[k]
    /\ \A i \in DOMAIN feed : fetched[feed[i].link].answered

\* A written feed that holds an article fetched after one whose fetch was
\* never answered.
C5_Witness ==
    /\ written
    /\ \E k1, k2 \in DOMAIN todo :
         /\ k1 < k2
         /\ ~fetched[todo[k1]].answered
         /\ fetched[todo[k2]].answered
         /\ todo[k2] \in FeedLinks

\* C6: every run comes to write the feed, and a category whose root was not
\* fetched is left behind: the run goes on with the categories after it.
C6_FeedAlwaysWritten ==
    /\ <>written
    /\ [](first_failed # 0 => cat > first_failed)

\* A feed with an item, written by a run whose first category root was not
\* fetched and one of whose articles was not fetched either.
C6_Witness ==
    /\ written
    /\ first_failed = 1
    /\ Len(feed) > 0
    /\ \E k \in DOMAIN todo : ~fetched[todo[k]].answered

\* C10 as the specification states it: every guid of the feed is non-empty
\* and items with different URLs have different guids.
C10_GuidsDistinct ==
    \A i, j \in DOMAIN feed :
        /\ feed[i].guid # ""
        /\ feed[i].link # feed[j].link => feed[i].guid # feed[j].guid

-----------------------------------------------------------------------------
(* Properties of the pure functions *)

FileSuffixes == { ".pdf", ".jpg", ".jpeg", ".png", ".gif" }

IsFileUrl(url) == \E suffix \in FileSuffixes : EndsWith(Lower(url), suffix)

\* C7 as the specification states it: no link to a PDF or to an image is
\* among the links extract_links_from_listing returns.
C7_NoFileLinks ==
    pc = "return_links" => \A url \in res : ~IsFileUrl(url)

HourTexts == { "14", "9" }

MinuteTexts == { "32", "05" }

\* C8 as the specification states it: of a text "D month YYYY, HH:MM"
\* parse_pl_date gives that day at HH:MM.
C8_TimeAfterCommaKept ==
    pc = "return_date" =>
        \A d \in DayTexts, m \in DOMAIN PL_MONTHS, y \in YearTexts,
           h \in HourTexts, n \in MinuteTexts :
            arg = d \o " " \o m \o " " \o y \o ", " \o h \o ":" \o n
              /\ ValidDateTime(ToInt(y), PL_MONTHS[m], ToInt(d), ToInt(h), ToInt(n), 0)
                => res = Some(DateTime(ToInt(y), PL_MONTHS[m], ToInt(d), ToInt(h), ToInt(n), 0))

\* C9 as the specification states it: a lead longer than MAX_LEAD is cut to
\* a text of at most MAX_LEAD characters.
C9_LeadWithinMax ==
    pc = "return_lead" /\ Len(arg) > MAX_LEAD => Len(res) <= MAX_LEAD

=============================================================================
